---- MODULE Spec2Model ----
(***************************************************************************)
(* Model of the server actions of the job tracker (utils/actions.ts): the  *)
(* job table behind Prisma, the Clerk identity of the caller, and one      *)
(* action per server action.  Text fields are sequences of one-character   *)
(* strings so that case folding and substring search are computed.         *)
(***************************************************************************)
EXTENDS Integers, Sequences, FiniteSets, TLC

VARIABLES jobs, nextId, now, last, listing, fixRun

vars == <<jobs, nextId, now, last, listing, fixRun>>

(* ------------------------------ bounds --------------------------------- *)

\* Number of jobs created in one behaviour of Spec.
MaxJobs == 2

\* Number of jobs created in one behaviour of SpecForm.
MaxFormJobs == 1

\* Number of jobs created in one behaviour of SpecList.
MaxListJobs == 2

\* Number of jobs created in one behaviour of SpecPage.
MaxPageJobs == 3

\* Latest instant the clock reaches.
MaxTime == 1

\* Largest page size a listing request asks for.
MaxLimit == 2

(* ------------------------------ callers -------------------------------- *)

Users == {"u1", "u2"}

\* auth() resolves no userId.
NoUser == "anonymous"

Callers == Users \cup {NoUser}

Null == [null |-> TRUE]

(* ------------------------------- text ---------------------------------- *)

UpperChars == <<"A", "B", "C", "D", "E", "F", "G", "H", "I", "J", "K", "L", "M",
                "N", "O", "P", "Q", "R", "S", "T", "U", "V", "W", "X", "Y", "Z">>

LowerChars == <<"a", "b", "c", "d", "e", "f", "g", "h", "i", "j", "k", "l", "m",
                "n", "o", "p", "q", "r", "s", "t", "u", "v", "w", "x", "y", "z">>

LowerChar(c) ==
  IF \E i \in DOMAIN UpperChars : UpperChars[i] = c
    THEN LowerChars[CHOOSE i \in DOMAIN UpperChars : UpperChars[i] = c]
    ELSE c

\* String.prototype.toLowerCase
toLowerCase(s) == [i \in 1..Len(s) |-> LowerChar(s[i])]

\* t occurs in s as a contiguous run of characters, compared exactly.
IsSubstring(t, s) ==
  \E i \in 0..(Len(s) - Len(t)) : SubSeq(s, i + 1, i + Len(t)) = t

sPending == <<"p", "e", "n", "d", "i", "n", "g">>
sInterview == <<"i", "n", "t", "e", "r", "v", "i", "e", "w">>
sDeclined == <<"d", "e", "c", "l", "i", "n", "e", "d">>
sFullTime == <<"f", "u", "l", "l", "-", "t", "i", "m", "e">>
sPartTime == <<"p", "a", "r", "t", "-", "t", "i", "m", "e">>
sInternship == <<"i", "n", "t", "e", "r", "n", "s", "h", "i", "p">>
sAll == <<"a", "l", "l">>

JobStatus == {sPending, sInterview, sDeclined}
JobMode == {sFullTime, sPartTime, sInternship}

\* The characters String.prototype.trim removes: space, line feed, tab.
Whitespace == {" ", "\n", "\t"}

RECURSIVE TrimStart(_)
TrimStart(s) ==
  IF s # <<>> /\ Head(s) \in Whitespace THEN TrimStart(Tail(s)) ELSE s

RECURSIVE TrimEnd(_)
TrimEnd(s) ==
  IF s # <<>> /\ s[Len(s)] \in Whitespace THEN TrimEnd(SubSeq(s, 1, Len(s) - 1)) ELSE s

\* String.prototype.trim
trim(s) == TrimEnd(TrimStart(s))

(* --------------------------- input validation -------------------------- *)

\* createAndEditJobSchema.parse(values) does not throw: the three texts have
\* at least two characters, status and mode are members of their enums; a
\* key the schema does not name is no error.
SchemaAccepts(values) ==
  /\ Len(values.position) >= 2
  /\ Len(values.company) >= 2
  /\ Len(values.location) >= 2
  /\ values.status \in JobStatus
  /\ values.mode \in JobMode

(* ------------------------------ the store ------------------------------ *)

\* A row of the Job table.
JobRow(id, clerkId, createdAt, updatedAt, v) ==
  [id |-> id, clerkId |-> clerkId, createdAt |-> createdAt, updatedAt |-> updatedAt,
   position |-> v.position, company |-> v.company, location |-> v.location,
   status |-> v.status, mode |-> v.mode]

\* where: { id, clerkId }
WhereIdAndClerk(store, id, userId) ==
  {j \in store : j.id = id /\ j.clerkId = userId}

\* prisma.job.create: id @default(uuid()), createdAt @default(now()) unless
\* data carries one, updatedAt @updatedAt.
PrismaCreate(id, t, data) ==
  JobRow(id, data.clerkId[1],
         IF data.createdAt = <<>> THEN t ELSE data.createdAt[1], t, data)

\* prisma.job.update on row j: every key present in data is written,
\* updatedAt @updatedAt is refreshed.
PrismaUpdate(j, t, data) ==
  JobRow(j.id,
         IF data.clerkId = <<>> THEN j.clerkId ELSE data.clerkId[1],
         IF data.createdAt = <<>> THEN j.createdAt ELSE data.createdAt[1],
         t, data)

(* ------------------------------ outcomes ------------------------------- *)

\* What a server action leaves behind: how it ended, what it returned, the
\* table after it, and how many Prisma calls it issued.
Returned(ret, store, calls) ==
  [outcome |-> "return", to |-> "", ret |-> ret, store |-> store, calls |-> calls]

\* An array as the value an action returns.
ArrayOf(items) == [items |-> items]

\* redirect(to) throws NEXT_REDIRECT out of the action.
Redirected(to, store, calls) ==
  [outcome |-> "redirect", to |-> to, ret |-> Null, store |-> store, calls |-> calls]

\* authenticateAndRedirect: the caller's userId, or the redirect to "/".
IsAuthenticated(caller) == caller # NoUser

(* ---------------------------- server actions --------------------------- *)

\* Mutant: data: { clerkId: userId, ...values }, a clerkId in values wins.
CreateData_ValuesLast(values, userId) ==
  IF values.clerkId = <<>> THEN [values EXCEPT !.clerkId = <<userId>>] ELSE values

\* data: { ...values, clerkId: userId }
CreateData(values, userId) == [values EXCEPT !.clerkId = <<userId>>]

\* Mutant: createAndEditJobSchema.parse(values) left out.
CreateTry_NoParse(store, id, t, userId, values, dbOk) ==
  IF ~dbOk THEN Returned(Null, store, 1)
  ELSE LET job == PrismaCreate(id, t, CreateData(values, userId))
       IN  Returned(job, store \cup {job}, 1)

\* The body of createJobAction's try block and its catch.
CreateTry(store, id, t, userId, values, dbOk) ==
  IF ~SchemaAccepts(values) THEN Returned(Null, store, 0)
  ELSE IF ~dbOk THEN Returned(Null, store, 1)
  ELSE LET job == PrismaCreate(id, t, CreateData(values, userId))
       IN  Returned(job, store \cup {job}, 1)

createJobAction(store, id, t, caller, values, dbOk) ==
  IF ~IsAuthenticated(caller) THEN Redirected("/", store, 0)
  ELSE CreateTry(store, id, t, caller, values, dbOk)

\* Mutant: where: { id }, the owner is not part of the lookup.
UpdateTry_ById(store, t, userId, id, values, dbOk) ==
  LET found == {j \in store : j.id = id}
  IN  IF ~dbOk \/ found = {} THEN Returned(Null, store, 1)
      ELSE LET old == CHOOSE j \in found : TRUE
               job == PrismaUpdate(old, t, values)
           IN  Returned(job, (store \ {old}) \cup {job}, 1)

\* The body of updateJobAction's try block and its catch: prisma.job.update
\* throws when no row matches the where clause.
UpdateTry(store, t, userId, id, values, dbOk) ==
  LET found == WhereIdAndClerk(store, id, userId)
  IN  IF ~dbOk \/ found = {} THEN Returned(Null, store, 1)
      ELSE LET old == CHOOSE j \in found : TRUE
               job == PrismaUpdate(old, t, values)
           IN  Returned(job, (store \ {old}) \cup {job}, 1)

updateJobAction(store, t, caller, id, values, dbOk) ==
  IF ~IsAuthenticated(caller) THEN Redirected("/", store, 0)
  ELSE UpdateTry(store, t, caller, id, values, dbOk)

\* Mutant: deleteMany where: { clerkId }, every row of the user goes.
DeleteTry_AllOfOwner(store, userId, id, dbOk) ==
  LET found == WhereIdAndClerk(store, id, userId)
  IN  IF ~dbOk \/ found = {} THEN Returned(Null, store, 1)
      ELSE LET old == CHOOSE j \in found : TRUE
           IN  Returned(old, {j \in store : j.clerkId # userId}, 1)

\* The body of deleteJobAction's try block and its catch: prisma.job.delete
\* throws when no row matches the where clause.
DeleteTry(store, userId, id, dbOk) ==
  LET found == WhereIdAndClerk(store, id, userId)
  IN  IF ~dbOk \/ found = {} THEN Returned(Null, store, 1)
      ELSE LET old == CHOOSE j \in found : TRUE
           IN  Returned(old, store \ {old}, 1)

\* Mutant: authenticateAndRedirect() called inside the try block, so the
\* catch turns the redirect into null.
deleteJobAction_AuthInTry(store, caller, id, dbOk) ==
  IF ~IsAuthenticated(caller) THEN Returned(Null, store, 0)
  ELSE DeleteTry(store, caller, id, dbOk)

deleteJobAction(store, caller, id, dbOk) ==
  IF ~IsAuthenticated(caller) THEN Redirected("/", store, 0)
  ELSE DeleteTry(store, caller, id, dbOk)

\* Mutant: where: { id }, the owner is not part of the lookup.
FindUniqueTry_ById(store, userId, id, dbOk) ==
  LET found == {j \in store : j.id = id}
  IN  IF ~dbOk \/ found = {} THEN Null ELSE CHOOSE j \in found : TRUE

\* prisma.job.findUnique inside try, job = null in catch.
FindUniqueTry(store, userId, id, dbOk) ==
  LET found == WhereIdAndClerk(store, id, userId)
  IN  IF ~dbOk \/ found = {} THEN Null ELSE CHOOSE j \in found : TRUE

\* Mutant: the lookup is outside any try block, its error leaves the action.
getSingleJobAction_Throws(store, caller, id, dbOk) ==
  IF ~IsAuthenticated(caller) THEN Redirected("/", store, 0)
  ELSE IF ~dbOk
    THEN [outcome |-> "error", to |-> "", ret |-> Null, store |-> store, calls |-> 1]
  ELSE LET job == FindUniqueTry(store, caller, id, dbOk)
       IN  IF job = Null THEN Redirected("/jobs", store, 1)
           ELSE Returned(job, store, 1)

getSingleJobAction(store, caller, id, dbOk) ==
  IF ~IsAuthenticated(caller) THEN Redirected("/", store, 0)
  ELSE LET job == FindUniqueTry(store, caller, id, dbOk)
       IN  IF job = Null THEN Redirected("/jobs", store, 1)
           ELSE Returned(job, store, 1)

(* ------------------------------- listing ------------------------------- *)

\* Prisma's { contains: term } on the PostgreSQL connector, no mode given:
\* LIKE '%term%', which compares characters exactly.
PrismaContains(field, term) == IsSubstring(term, field)

\* Mutant: the clerkId condition is missing from the where clause.
WhereClause_NoOwner(j, userId, search, jobStatus) ==
  /\ (search # <<>>) =>
       (IsSubstring(search, j.position) \/ IsSubstring(search, j.company))
  /\ (jobStatus # <<>> /\ jobStatus # sAll) => j.status = jobStatus

\* Mutant: the status is compared with letter case ignored.
WhereClause_StatusIgnoringCase(j, userId, search, jobStatus) ==
  /\ j.clerkId = userId
  /\ (search # <<>>) =>
       (IsSubstring(search, j.position) \/ IsSubstring(search, j.company))
  /\ (jobStatus # <<>> /\ jobStatus # sAll)
       => toLowerCase(j.status) = toLowerCase(jobStatus)

\* whereClause of getAllJobsAction: the owner, then the OR over position and
\* company when search is truthy, then the status when jobStatus is truthy
\* and not "all".
WhereClause(j, userId, search, jobStatus) ==
  /\ j.clerkId = userId
  /\ (search # <<>>) =>
       (PrismaContains(j.position, search) \/ PrismaContains(j.company, search))
  /\ (jobStatus # <<>> /\ jobStatus # sAll) => j.status = jobStatus

Matching(store, userId, search, jobStatus) ==
  {j \in store : WhereClause(j, userId, search, jobStatus)}

\* orderBy: { createdAt: "desc" }: the orders the database may deliver the
\* rows of S in; rows with equal createdAt come in any order.
OrdersByCreatedAtDesc(S) ==
  {f \in [1..Cardinality(S) -> S] :
     /\ \A i, k \in 1..Cardinality(S) : i # k => f[i] # f[k]
     /\ \A i, k \in 1..Cardinality(S) : i < k => f[i].createdAt >= f[k].createdAt}

Min(a, b) == IF a <= b THEN a ELSE b

\* skip / take on an ordered result.
SkipTake(ord, skip, take) == SubSeq(ord, skip + 1, Min(Len(ord), skip + take))

\* Mutant: Math.floor in place of Math.ceil.
CeilDiv_Floor(count, limit) == count \div limit

\* Math.ceil(count / limit) for limit >= 1.
CeilDiv(count, limit) == (count + limit - 1) \div limit

\* What JavaScript's division yields when the divisor is 0: count / 0 is
\* Infinity for count > 0 and NaN for count = 0, and Math.ceil keeps both.
\* They are kept as two numbers no count reaches.
Infinity == 2147483647
NaN == -2147483647

\* Math.ceil(count / limit) for count >= 0 and any integer limit.
MathCeilOfQuotient(count, limit) ==
  IF limit > 0 THEN CeilDiv(count, limit)
  ELSE IF limit < 0 THEN -(count \div (-limit))
  ELSE IF count = 0 THEN NaN ELSE Infinity

\* findMany's skip and take on the ordered rows, skip >= 0: a negative take
\* takes from the end of the list, the rows stay in the list's order.
FindManyPage(ord, skip, take) ==
  IF take >= 0 THEN SkipTake(ord, skip, take)
  ELSE LET hi == Len(ord) - skip
               lo == hi + take + 1
           IN  SubSeq(ord, IF lo < 1 THEN 1 ELSE lo, hi)

\* Mutant: the catch keeps the requested page in its result.
ListTry_PageKept(store, userId, search, jobStatus, page, limit, failAt, ord) ==
  LET skip == (page - 1) * limit
      count == Cardinality(Matching(store, userId, search, jobStatus))
  IN  IF failAt = 1 \/ skip < 0
        THEN Returned([jobs |-> <<>>, count |-> 0, page |-> page, totalPages |-> 0],
                      store, 1)
      ELSE IF failAt = 2
        THEN Returned([jobs |-> <<>>, count |-> 0, page |-> page, totalPages |-> 0],
                      store, 2)
      ELSE Returned([jobs |-> FindManyPage(ord, skip, limit), count |-> count,
                     page |-> page,
                     totalPages |-> MathCeilOfQuotient(count, limit)], store, 2)

\* The try block of getAllJobsAction and its catch.  failAt names the Prisma
\* call that throws: 0 none, 1 findMany, 2 count.  ord is the order findMany
\* delivers the matching rows in.  Prisma refuses a negative skip, so
\* findMany throws for it as well.
ListTry(store, userId, search, jobStatus, page, limit, failAt, ord) ==
  LET skip == (page - 1) * limit
      count == Cardinality(Matching(store, userId, search, jobStatus))
  IN  IF failAt = 1 \/ skip < 0
        THEN Returned([jobs |-> <<>>, count |-> 0, page |-> 1, totalPages |-> 0],
                      store, 1)
      ELSE IF failAt = 2
        THEN Returned([jobs |-> <<>>, count |-> 0, page |-> 1, totalPages |-> 0],
                      store, 2)
      ELSE Returned([jobs |-> FindManyPage(ord, skip, limit), count |-> count,
                     page |-> page,
                     totalPages |-> MathCeilOfQuotient(count, limit)], store, 2)

getAllJobsAction(store, caller, search, jobStatus, page, limit, failAt, ord) ==
  IF ~IsAuthenticated(caller) THEN Redirected("/", store, 0)
  ELSE ListTry(store, caller, search, jobStatus, page, limit, failAt, ord)

(* -------------------------------- stats -------------------------------- *)

\* prisma.job.groupBy({ by: ["status"], _count: { status: true },
\* where: { clerkId: userId } }): one group for each status, compared
\* exactly, that a row of the user carries.
GroupByStatus(store, userId) ==
  {[status |-> s,
    count |-> Cardinality({j \in store : j.clerkId = userId /\ j.status = s})] :
     s \in {j.status : j \in {k \in store : k.clerkId = userId}}}

RECURSIVE SumCounts(_)
SumCounts(groups) ==
  IF groups = {} THEN 0
  ELSE LET g == CHOOSE g \in groups : TRUE
       IN  g.count + SumCounts(groups \ {g})

\* Mutant: the group's status is used as it is stored.
Normalized_AsStored(status) == status

\* const normalized = curr.status.toLowerCase()
Normalized(status) == toLowerCase(status)

\* stats.reduce(...): the keys of statsObject are the normalized statuses
\* that ["pending", "interview", "declined"] includes, each with the sum of
\* the counts of its groups.
StatsObject(groups) ==
  [c \in {Normalized(g.status) : g \in groups} \cap JobStatus |->
     SumCounts({g \in groups : Normalized(g.status) = c})]

\* { pending: 0, declined: 0, interview: 0, ...statsObject }
DefaultStats(statsObject) ==
  [pending |-> IF sPending \in DOMAIN statsObject THEN statsObject[sPending] ELSE 0,
   declined |-> IF sDeclined \in DOMAIN statsObject THEN statsObject[sDeclined] ELSE 0,
   interview |-> IF sInterview \in DOMAIN statsObject THEN statsObject[sInterview] ELSE 0]

\* Mutant: the catch returns the default counts.
StatsTry_ZerosOnFailure(store, userId, dbOk) ==
  IF ~dbOk THEN Returned(DefaultStats(StatsObject({})), store, 1)
  ELSE Returned(DefaultStats(StatsObject(GroupByStatus(store, userId))), store, 1)

\* The try block of getStatsAction and its catch: redirect("/jobs").
StatsTry(store, userId, dbOk) ==
  IF ~dbOk THEN Redirected("/jobs", store, 1)
  ELSE Returned(DefaultStats(StatsObject(GroupByStatus(store, userId))), store, 1)

getStatsAction(store, caller, dbOk) ==
  IF ~IsAuthenticated(caller) THEN Redirected("/", store, 0)
  ELSE StatsTry(store, caller, dbOk)

(* ------------------------------- calendar ------------------------------ *)
(* An instant is a day: day 0 is 1 January of the first year after a       *)
(* century begins, so none of the years the model reaches has a            *)
(* 29 February.  Months are counted from month 0, the January of day 0.    *)

\* Last month the calendar is computed for.
MaxMonth == 23

MonthLengths == <<31, 28, 31, 30, 31, 30, 31, 31, 30, 31, 30, 31>>

MonthNames == <<"Jan", "Feb", "Mar", "Apr", "May", "Jun",
                "Jul", "Aug", "Sep", "Oct", "Nov", "Dec">>

\* dayjs().daysInMonth()
DaysInMonth(m) == MonthLengths[(m % 12) + 1]

\* The number of days in the months before month m.
RECURSIVE DaysBefore(_)
DaysBefore(m) == IF m = 0 THEN 0 ELSE DaysBefore(m - 1) + DaysInMonth(m - 1)

\* The first day of each month, as a table.
MonthStarts == [m \in 0..(MaxMonth + 1) |-> DaysBefore(m)] @@ <<>>

\* The first day of month m.
MonthStart(m) == MonthStarts[m]

\* The day d of month m.
Date(m, d) == MonthStart(m) + d - 1

\* The month each day lies in, as a table.
MonthOfDay ==
  [t \in 0..(MonthStarts[MaxMonth + 1] - 1) |->
     CHOOSE m \in 0..MaxMonth : MonthStarts[m] <= t /\ t < MonthStarts[m + 1]] @@ <<>>

\* The month that day t lies in.
MonthOf(t) == MonthOfDay[t]

DayOfMonth(t) == t - MonthStart(MonthOf(t)) + 1

\* dayjs(t).subtract(n, "month"): the same day of the month n months before,
\* or the last day of that month when it is shorter.
SubtractMonths(t, n) ==
  LET m == MonthOf(t) - n
  IN  Date(m, Min(DayOfMonth(t), DaysInMonth(m)))

\* dayjs(t).format("MMM YY"): the month's short name and the last two
\* digits of the year.
FormatMMMYY(t) ==
  [mon |-> MonthNames[(MonthOf(t) % 12) + 1], yy |-> (1 + MonthOf(t) \div 12) % 100]

(* -------------------------------- charts ------------------------------- *)

\* Mutant: the window has no upper end.
ChartWindow_NoUpper(j, userId, t) ==
  /\ j.clerkId = userId
  /\ j.createdAt >= SubtractMonths(t, 6)

\* where: { clerkId: userId, createdAt: { gte: sixMonthsAgo, lte: now } }
ChartWindow(j, userId, t) ==
  /\ j.clerkId = userId
  /\ j.createdAt >= SubtractMonths(t, 6)
  /\ j.createdAt <= t

ChartRows(store, userId, t) == {j \in store : ChartWindow(j, userId, t)}

\* Mutant: orderBy: { createdAt: "desc" }.
OrdersByCreatedAtAsc_Desc(S) == OrdersByCreatedAtDesc(S)

\* orderBy: { createdAt: "asc" }: the orders the database may deliver the
\* rows of S in; rows with equal createdAt come in any order.
OrdersByCreatedAtAsc(S) ==
  {f \in [1..Cardinality(S) -> S] :
     /\ \A i, k \in 1..Cardinality(S) : i # k => f[i] # f[k]
     /\ \A i, k \in 1..Cardinality(S) : i < k => f[i].createdAt <= f[k].createdAt}

\* jobs.reduce(...) from the accumulator acc over the rows of rest: the
\* first entry with the row's label is incremented, or a new entry with
\* count 1 is pushed.
RECURSIVE ApplicationsPerMonth(_, _)
ApplicationsPerMonth(acc, rest) ==
  IF rest = <<>> THEN acc
  ELSE LET date == FormatMMMYY(Head(rest).createdAt)
           found == {i \in DOMAIN acc : acc[i].date = date}
       IN  IF found # {}
             THEN LET i == CHOOSE i \in found : \A k \in found : i <= k
                  IN  ApplicationsPerMonth([acc EXCEPT ![i].count = @ + 1], Tail(rest))
             ELSE ApplicationsPerMonth(Append(acc, [date |-> date, count |-> 1]),
                                       Tail(rest))

\* Mutant: the catch returns an empty list.
ChartsTry_EmptyOnFailure(store, userId, t, dbOk, ord) ==
  IF ~dbOk THEN Returned(ArrayOf(<<>>), store, 1)
  ELSE Returned(ArrayOf(ApplicationsPerMonth(<<>>, ord)), store, 1)

\* The try block of getChartsDataAction and its catch: redirect("/jobs").
\* ord is the order findMany delivers the rows of the window in.
ChartsTry(store, userId, t, dbOk, ord) ==
  IF ~dbOk THEN Redirected("/jobs", store, 1)
  ELSE Returned(ArrayOf(ApplicationsPerMonth(<<>>, ord)), store, 1)

getChartsDataAction(store, caller, t, dbOk, ord) ==
  IF ~IsAuthenticated(caller) THEN Redirected("/", store, 0)
  ELSE ChartsTry(store, caller, t, dbOk, ord)

(* ------------------------------- export -------------------------------- *)

\* Mutant: the where clause of the export names no owner.
DownloadRows_NoOwner(store, userId) == store

\* where: { clerkId: userId }, no skip and no take.
DownloadRows(store, userId) == {j \in store : j.clerkId = userId}

\* The try block of getAllJobsForDownloadAction and its catch: return [].
\* ord is the order findMany delivers the user's rows in.
DownloadTry(store, userId, dbOk, ord) ==
  IF ~dbOk THEN Returned(ArrayOf(<<>>), store, 1)
  ELSE Returned(ArrayOf(ord), store, 1)

getAllJobsForDownloadAction(store, caller, dbOk, ord) ==
  IF ~IsAuthenticated(caller) THEN Redirected("/", store, 0)
  ELSE DownloadTry(store, caller, dbOk, ord)

(* ------------------------- db-fix-future-dates ------------------------- *)

\* What Math.random() decides in one call of fixFutureDate: the day, when
\* oldDate is in the month of now, and else the months back and the day.
RandomDraws(oldDate, t) ==
  IF MonthOf(oldDate) = MonthOf(t)
    THEN [sameMonthDay : 1..DayOfMonth(t)]
    ELSE [monthsBack : 0..5, day : 1..28]

\* date.setMonth(m) and date.setDate(d) on a date of month m0: the day d of
\* month m, running over into the next month when month m is shorter.
SetMonth(t, m) == Date(m, DayOfMonth(t))
SetDate(t, d) == Date(MonthOf(t), d)

\* fixFutureDate(oldDate, now) with the random numbers of draw.
fixFutureDate(oldDate, t, draw) ==
  IF MonthOf(oldDate) = MonthOf(t)
    THEN SetDate(oldDate, draw.sameMonthDay)
    ELSE SetDate(SetMonth(t, MonthOf(t) - draw.monthsBack), draw.day)

\* The dates fixFutureDate(oldDate, now) may return.
FixedDates(oldDate, t) ==
  {fixFutureDate(oldDate, t, draw) : draw \in RandomDraws(oldDate, t)}

\* where: { createdAt: { gt: now } }
FutureJobs(store, t) == {j \in store : j.createdAt > t}

\* The rows the loop of main may leave in place of the rows of S: each row
\* with one of the dates fixFutureDate may return as createdAt and updatedAt.
RECURSIVE FixedRows(_, _)
FixedRows(S, t) ==
  IF S = {} THEN {{}}
  ELSE LET j == CHOOSE j \in S : TRUE
       IN  {{[j EXCEPT !.createdAt = d, !.updatedAt = d]} \cup rest :
              d \in FixedDates(j.createdAt, t), rest \in FixedRows(S \ {j}, t)}

(* ----------------------------- db-fix-status --------------------------- *)

\* Mutant: the status is lower-cased but not trimmed.
normalizeStatus_NoTrim(raw) ==
  LET trimmed == toLowerCase(raw)
  IN  IF trimmed = <<>> THEN <<sPending>>
      ELSE IF trimmed \in JobStatus THEN <<trimmed>>
      ELSE <<>>

\* normalizeStatus(raw): <<s>> for the string s it returns, <<>> for null.
normalizeStatus(raw) ==
  LET trimmed == toLowerCase(trim(raw))
  IN  IF trimmed = <<>> THEN <<sPending>>
      ELSE IF trimmed \in JobStatus THEN <<trimmed>>
      ELSE <<>>

\* The orders a findMany without orderBy may deliver the rows of S in.
AnyOrder(S) ==
  {f \in [1..Cardinality(S) -> S] :
     \A i, k \in 1..Cardinality(S) : i # k => f[i] # f[k]}

\* JSON.stringify of a string: the text between double quotes, with the
\* quote, the backslash, the newline and the tab escaped.
RECURSIVE JSONEscape(_)
JSONEscape(s) ==
  IF s = <<>> THEN <<>>
  ELSE (CASE Head(s) = "\"" -> <<"\\", "\"">>
          [] Head(s) = "\\" -> <<"\\", "\\">>
          [] Head(s) = "\n" -> <<"\\", "n">>
          [] Head(s) = "\t" -> <<"\\", "t">>
          [] OTHER -> <<Head(s)>>) \o JSONEscape(Tail(s))

JSONStringify(s) == <<"\"">> \o JSONEscape(s) \o <<"\"">>

\* The first loop of main over the rows read: toFix gets an entry for each
\* row whose normalized status is not null and differs from its status.
RECURSIVE ToFix(_)
ToFix(rows) ==
  IF rows = <<>> THEN <<>>
  ELSE LET job == Head(rows)
           normalized == normalizeStatus(job.status)
       IN  IF normalized # <<>> /\ normalized[1] # job.status
             THEN <<[id |-> job.id, from |-> JSONStringify(job.status),
                      to |-> normalized[1]]>>
                    \o ToFix(Tail(rows))
             ELSE ToFix(Tail(rows))

\* prisma.job.update({ where: { id }, data: { status: to } }) on a table
\* that holds the row: the status is written, updatedAt is refreshed.
FixUpdate(store, t, fix) ==
  {IF j.id = fix.id THEN [j EXCEPT !.status = fix.to, !.updatedAt = t] ELSE j :
     j \in store}

(* ---------------------------- state machine ---------------------------- *)
(* Requests are served one at a time: a server action runs from the        *)
(* request to its response in one step, last holds the response until the  *)
(* client has taken it, and the next request comes after that.             *)

NoArgs == [id |-> 0]

Idle ==
  [op |-> "none", caller |-> NoUser, args |-> NoArgs, outcome |-> "return",
   to |-> "", ret |-> Null, calls |-> 0]

Observed(op, caller, args, r) ==
  [op |-> op, caller |-> caller, args |-> args, outcome |-> r.outcome,
   to |-> r.to, ret |-> r.ret, calls |-> r.calls]

\* No listing is between its two queries.
NoListing == Null

\* The repair script is not running.
FixIdle == [pc |-> "idle", toFix |-> <<>>]

Init ==
  /\ jobs = {}
  /\ nextId = 1
  /\ now = 0
  /\ last = Idle
  /\ listing = NoListing
  /\ fixRun = FixIdle

\* Time passes between two requests.
Tick ==
  /\ last = Idle
  /\ now < MaxTime
  /\ now' = now + 1
  /\ UNCHANGED <<jobs, nextId, last>>
  /\ UNCHANGED <<listing, fixRun>>

\* The client takes the response.
Respond ==
  /\ last # Idle
  /\ last' = Idle
  /\ UNCHANGED <<jobs, nextId, now>>
  /\ UNCHANGED <<listing, fixRun>>

CreateJob(caller, values, dbOk) ==
  /\ last = Idle
  /\ LET r == createJobAction(jobs, nextId, now, caller, values, dbOk)
     IN  /\ jobs' = r.store
         /\ nextId' = IF r.store = jobs THEN nextId ELSE nextId + 1
         /\ last' = Observed("create", caller, [values |-> values], r)
  /\ UNCHANGED now
  /\ UNCHANGED <<listing, fixRun>>

UpdateJob(caller, id, values, dbOk) ==
  /\ last = Idle
  /\ LET r == updateJobAction(jobs, now, caller, id, values, dbOk)
     IN  /\ jobs' = r.store
         /\ last' = Observed("update", caller, [id |-> id, values |-> values], r)
  /\ UNCHANGED <<nextId, now>>
  /\ UNCHANGED <<listing, fixRun>>

DeleteJob(caller, id, dbOk) ==
  /\ last = Idle
  /\ LET r == deleteJobAction(jobs, caller, id, dbOk)
     IN  /\ jobs' = r.store
         /\ last' = Observed("delete", caller, [id |-> id], r)
  /\ UNCHANGED <<nextId, now>>
  /\ UNCHANGED <<listing, fixRun>>

GetSingleJob(caller, id, dbOk) ==
  /\ last = Idle
  /\ LET r == getSingleJobAction(jobs, caller, id, dbOk)
     IN  last' = Observed("getSingle", caller, [id |-> id, dbOk |-> dbOk], r)
  /\ UNCHANGED <<jobs, nextId, now>>
  /\ UNCHANGED <<listing, fixRun>>

GetAllJobs(caller, search, jobStatus, page, limit, failAt) ==
  /\ last = Idle
  /\ \E ord \in OrdersByCreatedAtDesc(Matching(jobs, caller, search, jobStatus)) :
       LET r == getAllJobsAction(jobs, caller, search, jobStatus, page, limit,
                                 failAt, ord)
       IN  last' = Observed("getAll", caller,
                            [search |-> search, jobStatus |-> jobStatus,
                             page |-> page, limit |-> limit, failAt |-> failAt], r)
  /\ UNCHANGED <<jobs, nextId, now>>
  /\ UNCHANGED <<listing, fixRun>>

GetStats(caller, dbOk) ==
  /\ last = Idle
  /\ LET r == getStatsAction(jobs, caller, dbOk)
     IN  last' = Observed("getStats", caller, [dbOk |-> dbOk], r)
  /\ UNCHANGED <<jobs, nextId, now>>
  /\ UNCHANGED <<listing, fixRun>>

GetChartsData(caller, dbOk) ==
  /\ last = Idle
  /\ \E ord \in OrdersByCreatedAtAsc(ChartRows(jobs, caller, now)) :
       LET r == getChartsDataAction(jobs, caller, now, dbOk, ord)
       IN  last' = Observed("getCharts", caller, [dbOk |-> dbOk], r)
  /\ UNCHANGED <<jobs, nextId, now>>
  /\ UNCHANGED <<listing, fixRun>>

GetAllJobsForDownload(caller, dbOk) ==
  /\ last = Idle
  /\ \E ord \in OrdersByCreatedAtDesc(DownloadRows(jobs, caller)) :
       LET r == getAllJobsForDownloadAction(jobs, caller, dbOk, ord)
       IN  last' = Observed("download", caller, [dbOk |-> dbOk], r)
  /\ UNCHANGED <<jobs, nextId, now>>
  /\ UNCHANGED <<listing, fixRun>>

\* A client reads the pages 1..totalPages of one listing, with one call of
\* getAllJobsAction for each page, while the table stays as it is.  ords[k]
\* is the order findMany delivers the matching rows in at the k-th call.
GetAllPages(caller, limit) ==
  /\ last = Idle
  /\ IsAuthenticated(caller)
  /\ LET M == Matching(jobs, caller, <<>>, <<>>)
         n == CeilDiv(Cardinality(M), limit)
     IN  \E ords \in [1..n -> OrdersByCreatedAtDesc(M)] :
           LET pages == [k \in 1..n |->
                           getAllJobsAction(jobs, caller, <<>>, <<>>, k, limit, 0,
                                            ords[k]).ret.jobs]
           IN  last' = Observed("getAllPages", caller, [limit |-> limit],
                                Returned([pages |-> pages], jobs, 2 * n))
  /\ UNCHANGED <<jobs, nextId, now>>
  /\ UNCHANGED <<listing, fixRun>>

\* One run of scripts/db-fix-future-dates.ts with no other write during it:
\* each job with a createdAt after now gets the date fixFutureDate returns
\* as its createdAt and its updatedAt.
FixFutureDates ==
  /\ last = Idle
  /\ LET futureJobs == FutureJobs(jobs, now)
     IN  \E fixed \in FixedRows(futureJobs, now) :
           /\ jobs' = (jobs \ futureJobs) \cup fixed
           /\ last' = Observed("fixFutureDates", NoUser, NoArgs,
                                Returned([fixed |-> Cardinality(futureJobs)], jobs',
                                         1 + Cardinality(futureJobs)))
  /\ UNCHANGED <<nextId, now>>
  /\ UNCHANGED <<listing, fixRun>>

\* main of scripts/db-fix-status.ts up to its second loop: the rows are
\* read and toFix is built; with nothing to fix the script returns.
FixStatusRead ==
  /\ fixRun.pc # "fixing"
  /\ \E rows \in AnyOrder(jobs) :
       LET toFix == ToFix(rows)
       IN  fixRun' = [pc |-> IF toFix = <<>> THEN "done" ELSE "fixing", toFix |-> toFix]
  /\ UNCHANGED <<jobs, nextId, now, last, listing>>

\* One turn of the second loop of main: the update of the first entry of
\* toFix.  prisma.job.update throws when the row is gone, and main ends.
FixStatusWrite ==
  /\ fixRun.pc = "fixing"
  /\ LET fix == Head(fixRun.toFix)
         rest == Tail(fixRun.toFix)
     IN  IF \E j \in jobs : j.id = fix.id
           THEN /\ jobs' = FixUpdate(jobs, now, fix)
                /\ fixRun' = [pc |-> IF rest = <<>> THEN "done" ELSE "fixing",
                              toFix |-> rest]
           ELSE /\ jobs' = jobs
                /\ fixRun' = [pc |-> "done", toFix |-> <<>>]
  /\ UNCHANGED <<nextId, now, last, listing>>

\* getAllJobsAction up to the end of its first query, for a caller who is
\* signed in and a findMany that does not throw: the page of rows is held
\* while the request waits for its second query.
ListFindMany(caller, search, jobStatus, page, limit) ==
  /\ last = Idle
  /\ listing = NoListing
  /\ IsAuthenticated(caller)
  /\ (page - 1) * limit >= 0
  /\ \E ord \in OrdersByCreatedAtDesc(Matching(jobs, caller, search, jobStatus)) :
       listing' = [caller |-> caller, search |-> search, jobStatus |-> jobStatus,
                   page |-> page, limit |-> limit,
                   jobs |-> FindManyPage(ord, (page - 1) * limit, limit)]
  /\ UNCHANGED <<jobs, nextId, now, last, fixRun>>

\* The rest of getAllJobsAction: the count query on the table as it is
\* now, Math.ceil(count / limit) and the return.
ListCount ==
  /\ last = Idle
  /\ listing # NoListing
  /\ LET count == Cardinality(Matching(jobs, listing.caller, listing.search,
                                       listing.jobStatus))
         r == Returned([jobs |-> listing.jobs, count |-> count,
                        page |-> listing.page,
                        totalPages |-> MathCeilOfQuotient(count, listing.limit)],
                       jobs, 2)
     IN  last' = Observed("getAll", listing.caller,
                          [search |-> listing.search, jobStatus |-> listing.jobStatus,
                           page |-> listing.page, limit |-> listing.limit,
                           failAt |-> 0], r)
  /\ listing' = NoListing
  /\ UNCHANGED <<jobs, nextId, now, fixRun>>

\* A step that serves a request.
CallStep == last = Idle /\ last' # Idle

(* ------------------------------- inputs -------------------------------- *)

sDev == <<"D", "e", "v">>
sdev == <<"d", "e", "v">>
sD == <<"D">>
sAb == <<"A", "b">>
sA == <<"A">>
sNY == <<"N", "Y">>
sN == <<"N">>
sPendingCap == <<"P", "e", "n", "d", "i", "n", "g">>
sRemote == <<"r", "e", "m", "o", "t", "e">>
szz == <<"z", "z">>
sQA == <<"Q", "A">>

\* A form submission that passes validation and carries no extra key.
vBase ==
  [position |-> sDev, company |-> sAb, location |-> sNY, status |-> sPending,
   mode |-> sFullTime, clerkId |-> <<>>, createdAt |-> <<>>]

ValidValues == {vBase, [vBase EXCEPT !.status = sInterview]}

InvalidValues ==
  {[vBase EXCEPT !.position = sD], [vBase EXCEPT !.company = sA],
   [vBase EXCEPT !.location = sN], [vBase EXCEPT !.status = sPendingCap],
   [vBase EXCEPT !.mode = sRemote]}

\* Submissions that carry a clerkId next to the form fields.
ClerkIdValues == {[vBase EXCEPT !.clerkId = <<u>>] : u \in Users}

\* Submissions that carry a createdAt next to the form fields.
CreatedAtValues == {[vBase EXCEPT !.createdAt = <<d>>] : d \in {0, MaxTime + 1}}

(* ----------------- ownership and authentication: Spec ------------------ *)

OwnValues == ValidValues \cup ClerkIdValues

Next ==
  \/ Respond
  \/ \E c \in Callers, v \in OwnValues, ok \in BOOLEAN :
       nextId <= MaxJobs /\ CreateJob(c, v, ok)
  \/ \E c \in Callers, id \in 1..MaxJobs, v \in OwnValues, ok \in BOOLEAN :
       UpdateJob(c, id, v, ok)
  \/ \E c \in Callers, id \in 1..MaxJobs, ok \in BOOLEAN : DeleteJob(c, id, ok)
  \/ \E c \in Callers, id \in 1..MaxJobs, ok \in BOOLEAN : GetSingleJob(c, id, ok)

Spec == Init /\ [][Next]_vars

\* C1: a lookup by a user who does not own the record ends as a lookup of
\* an id that does not exist: the redirect to /jobs, and no record returned.
C1_OwnershipIsolation ==
  (last.op = "getSingle" /\ last.caller \in Users
     /\ \A j \in jobs : j.id = last.args.id => j.clerkId # last.caller)
    => (last.outcome = "redirect" /\ last.to = "/jobs" /\ last.ret = Null)

C1_Witness ==
  /\ last.op = "getSingle"
  /\ last.caller \in Users
  /\ last.calls = 1
  /\ \E j \in jobs : j.id = last.args.id /\ j.clerkId # last.caller
  /\ last.outcome = "redirect"

\* C2: update and delete of a record owned by another user return null and
\* leave the whole table as it was.
C2_MutationOwnership ==
  [][(CallStep /\ last'.op \in {"update", "delete"} /\ last'.caller \in Users
        /\ \E j \in jobs : j.id = last'.args.id /\ j.clerkId # last'.caller)
       => (last'.outcome = "return" /\ last'.ret = Null /\ jobs' = jobs)]_vars

C2_Witness ==
  /\ last.op = "update"
  /\ last.caller \in Users
  /\ last.calls = 1
  /\ \E j \in jobs : j.id = last.args.id /\ j.clerkId # last.caller
  /\ last.ret = Null

\* C5: a row persisted by create belongs to the authenticated caller,
\* whatever clerkId the submitted values carry.
C5_CreateOwnerForced ==
  [][(CallStep /\ last'.op = "create")
       => /\ \A j \in jobs' \ jobs : j.clerkId = last'.caller /\ j = last'.ret
          /\ last'.ret # Null => last'.ret \in jobs' \ jobs]_vars

C5_Witness ==
  /\ last.op = "create"
  /\ last.ret \in jobs
  /\ last.args.values.clerkId # <<>>
  /\ last.args.values.clerkId # <<last.caller>>
  /\ last.ret.clerkId = last.caller

\* C7: with no resolved identity, create, update and delete end in the
\* redirect to "/", issue no storage call, and do not return null.
C7_UnauthenticatedRedirect ==
  (last.op \in {"create", "update", "delete"} /\ last.caller = NoUser)
    => (last.outcome = "redirect" /\ last.to = "/" /\ last.calls = 0)

C7_Witness ==
  /\ last.op = "delete"
  /\ last.caller = NoUser
  /\ last.outcome = "redirect"
  /\ \E j \in jobs : j.id = last.args.id

\* C18: a lookup whose storage call throws ends as a lookup that finds no
\* row of the caller with the id: the redirect to /jobs, no record returned,
\* and no error.
C18_LookupFailureAsNotFound ==
  (last.op = "getSingle" /\ last.caller \in Users
     /\ (~last.args.dbOk \/ WhereIdAndClerk(jobs, last.args.id, last.caller) = {}))
    => (last.outcome = "redirect" /\ last.to = "/jobs" /\ last.ret = Null)

C18_Witness ==
  /\ last.op = "getSingle"
  /\ last.caller \in Users
  /\ ~last.args.dbOk
  /\ WhereIdAndClerk(jobs, last.args.id, last.caller) # {}
  /\ last.outcome = "redirect"
  /\ last.to = "/jobs"

(* ---------------------- form contents: SpecForm ------------------------ *)

FormValues == ValidValues \cup InvalidValues \cup ClerkIdValues \cup CreatedAtValues

\* What the edit form submits in SpecForm: a valid change, a too short
\* position, a status outside the category set, and the extra keys.
FormUpdateValues ==
  {[vBase EXCEPT !.status = sInterview], [vBase EXCEPT !.position = sD],
   [vBase EXCEPT !.status = sPendingCap], [vBase EXCEPT !.clerkId = <<"u2">>]}
    \cup CreatedAtValues

FormCallers == {"u1", NoUser}

NextForm ==
  \/ Tick
  \/ Respond
  \/ \E c \in FormCallers, v \in FormValues, ok \in BOOLEAN :
       nextId <= MaxFormJobs /\ CreateJob(c, v, ok)
  \/ \E c \in FormCallers, id \in 1..MaxFormJobs, v \in FormUpdateValues,
        ok \in BOOLEAN : UpdateJob(c, id, v, ok)
  \/ \E c \in FormCallers, id \in 1..MaxFormJobs, ok \in BOOLEAN :
       DeleteJob(c, id, ok)

SpecForm == Init /\ [][NextForm]_vars

\* C3: a successful update leaves the row's clerkId and createdAt as they
\* were, whatever keys the submitted values carry.
C3_UpdateKeepsOwnerAndCreatedAt ==
  [][(CallStep /\ last'.op = "update" /\ last'.ret # Null)
       => \A j \in jobs : j.id = last'.args.id
            => (last'.ret.clerkId = j.clerkId /\ last'.ret.createdAt = j.createdAt)]_vars

\* C4: an update whose values fail the validation of create fails and
\* leaves the table as it was.
C4_UpdateValidates ==
  [][(CallStep /\ last'.op = "update" /\ ~SchemaAccepts(last'.args.values))
       => (last'.ret = Null /\ jobs' = jobs)]_vars

\* C6: a create whose values fail validation returns the failure value and
\* leaves the table as it was.
C6_CreateRejectsInvalid ==
  [][(CallStep /\ last'.op = "create" /\ ~SchemaAccepts(last'.args.values))
       => (last'.ret = Null /\ jobs' = jobs /\ nextId' = nextId)]_vars

C6_Witness ==
  /\ last.op = "create"
  /\ last.caller \in Users
  /\ ~SchemaAccepts(last.args.values)
  /\ last.outcome = "return"
  /\ last.ret = Null
  /\ last.calls = 0

(* ----------------------- search and filter: SpecList -------------------- *)

\* Jobs that the search tells apart: "Dev" at "Ab", pending, and "QA" at
\* "dev", interview.
ListValues ==
  {vBase, [vBase EXCEPT !.position = sQA, !.company = sdev, !.status = sInterview]}

SearchTerms == {<<>>, sdev, sDev, szz}

StatusFilters == {<<>>, sAll, sPending}

\* limit: 10 when the caller gives none.
DefaultLimit == 10

NextList ==
  \/ Tick
  \/ Respond
  \/ \E c \in Users, v \in ListValues :
       nextId <= MaxListJobs /\ CreateJob(c, v, TRUE)
  \/ \E c \in Users, id \in 1..MaxListJobs :
       UpdateJob(c, id, [vBase EXCEPT !.status = sDeclined], TRUE)
  \/ \E c \in Users, id \in 1..MaxListJobs : DeleteJob(c, id, TRUE)
  \/ \E c \in Users, search \in SearchTerms, jobStatus \in StatusFilters,
        page \in {1, 2}, limit \in {1, DefaultLimit}, failAt \in 0..1 :
       GetAllJobs(c, search, jobStatus, page, limit, failAt)

SpecList == Init /\ [][NextList]_vars

\* The rows of the table that belong to user u.
OwnedBy(u) == {j \in jobs : j.clerkId = u}

\* C8: every row a listing returns belongs to the caller, and count counts
\* the caller's rows only, for every search term, status filter, page and
\* page size.
C8_ListOnlyOwnRows ==
  (last.op = "getAll" /\ last.outcome = "return")
    => /\ \A i \in 1..Len(last.ret.jobs) : last.ret.jobs[i] \in OwnedBy(last.caller)
       /\ last.ret.count <= Cardinality(OwnedBy(last.caller))
       /\ (last.args.failAt = 0 /\ last.args.search = <<>>
             /\ last.args.jobStatus \in {<<>>, sAll})
            => last.ret.count = Cardinality(OwnedBy(last.caller))

C8_Witness ==
  /\ last.op = "getAll"
  /\ last.args.failAt = 0
  /\ last.args.search = sdev
  /\ Len(last.ret.jobs) = 1
  /\ last.ret.count = 1
  /\ \E j \in jobs : /\ j.clerkId # last.caller
                     /\ WhereClause(j, j.clerkId, last.args.search, last.args.jobStatus)

\* The search of the specification: term is a substring of text, letter
\* case ignored.
ContainsIgnoringCase(text, term) == IsSubstring(toLowerCase(term), toLowerCase(text))

\* C10: with a search term, a listing matches exactly the caller's rows
\* whose position or company contains the term, letter case ignored, and
\* that pass the status filter.
C10_SearchIgnoresCase ==
  (last.op = "getAll" /\ last.outcome = "return" /\ last.args.failAt = 0
     /\ last.args.search # <<>>)
    => last.ret.count =
         Cardinality({j \in OwnedBy(last.caller) :
            /\ \/ ContainsIgnoringCase(j.position, last.args.search)
               \/ ContainsIgnoringCase(j.company, last.args.search)
            /\ last.args.jobStatus \in {<<>>, sAll} \/ j.status = last.args.jobStatus})

(* --------------------------- paging: SpecPage --------------------------- *)

Limits == (1..MaxLimit) \cup {DefaultLimit}

Pages == 1..(MaxPageJobs + 1)

NextPage ==
  \/ Tick
  \/ Respond
  \/ \E c \in Users : nextId <= MaxPageJobs /\ CreateJob(c, vBase, TRUE)
  \/ \E c \in Users, id \in 1..MaxPageJobs : DeleteJob(c, id, TRUE)
  \/ \E c \in Users, page \in Pages, limit \in Limits, failAt \in 0..2 :
       GetAllJobs(c, <<>>, <<>>, page, limit, failAt)

SpecPage == Init /\ [][NextPage]_vars

Max(a, b) == IF a >= b THEN a ELSE b

\* C9: with N rows matching and page size P, page k holds
\* min(P, max(0, N - (k-1)*P)) rows, count is N, totalPages is the least q
\* with q*P >= N, and a page beyond totalPages is empty and no error.
C9_Pagination ==
  (last.op = "getAll" /\ last.args.failAt = 0)
    => LET N == Cardinality(Matching(jobs, last.caller, last.args.search,
                                     last.args.jobStatus))
           P == last.args.limit
           k == last.args.page
       IN  /\ last.outcome = "return"
           /\ Len(last.ret.jobs) = Min(P, Max(0, N - (k - 1) * P))
           /\ last.ret.count = N
           /\ last.ret.totalPages * P >= N
           /\ (last.ret.totalPages - 1) * P < N
           /\ last.ret.page = k
           /\ k > last.ret.totalPages => last.ret.jobs = <<>>

C9_Witness ==
  /\ last.op = "getAll"
  /\ last.args.failAt = 0
  /\ last.args.limit = 2
  /\ last.args.page = 2
  /\ last.ret.count = 3
  /\ last.ret.totalPages = 2
  /\ Len(last.ret.jobs) = 1

(* ------------------ page and limit out of range: SpecEdge --------------- *)

\* Number of jobs created in one behaviour of SpecEdge.
MaxEdgeJobs == 2

\* Page numbers a caller may send: below 1, and the first two pages.
EdgePages == {-1, 0, 1, 2}

\* Page sizes a caller may send: negative, zero, one, and the default.
EdgeLimits == {-1, 0, 1, DefaultLimit}

NextEdge ==
  \/ Respond
  \/ \E c \in Users : nextId <= MaxEdgeJobs /\ CreateJob(c, vBase, TRUE)
  \/ \E c \in Users, id \in 1..MaxEdgeJobs : DeleteJob(c, id, TRUE)
  \/ \E c \in Users, page \in EdgePages, limit \in EdgeLimits :
       GetAllJobs(c, <<>>, <<>>, page, limit, 0)

SpecEdge == Init /\ [][NextEdge]_vars

\* C11: a listing asked for a page below 1 answers as the listing of page 1
\* on the same table: the same rows, count and totalPages, and page 1.
C11_PageClampedToOne ==
  (last.op = "getAll" /\ last.args.page < 1 /\ last.args.limit >= 1)
    => /\ last.outcome = "return"
       /\ \E ord \in OrdersByCreatedAtDesc(
                       Matching(jobs, last.caller, last.args.search,
                                last.args.jobStatus)) :
            last.ret = getAllJobsAction(jobs, last.caller, last.args.search,
                                        last.args.jobStatus, 1, last.args.limit,
                                        0, ord).ret

\* The result of the catch block of a listing.
EmptyListing == [jobs |-> <<>>, count |-> 0, page |-> 1, totalPages |-> 0]

\* C12: a listing asked with a page size of 0 or less is refused or runs
\* with the default page size; its totalPages never is a quotient by zero.
C12_NonPositiveLimit ==
  (last.op = "getAll" /\ last.args.page >= 1 /\ last.args.limit <= 0)
    => /\ last.ret.totalPages \notin {Infinity, NaN}
       /\ \/ last.ret = EmptyListing
          \/ \E ord \in OrdersByCreatedAtDesc(
                          Matching(jobs, last.caller, last.args.search,
                                   last.args.jobStatus)) :
               last.ret = getAllJobsAction(jobs, last.caller, last.args.search,
                                           last.args.jobStatus, last.args.page,
                                           DefaultLimit, 0, ord).ret

\* C13: when findMany or count throws, a listing returns the empty result
\* with page 1 and totalPages 0, whatever page was asked, and ends as a
\* normal return.
C13_ListFailureIsEmptyResult ==
  (last.op = "getAll" /\ last.caller \in Users /\ last.args.failAt # 0)
    => /\ last.outcome = "return"
       /\ last.ret.jobs = <<>>
       /\ last.ret.count = 0
       /\ last.ret.page = 1
       /\ last.ret.totalPages = 0

C13_Witness ==
  /\ last.op = "getAll"
  /\ last.args.failAt = 2
  /\ last.args.page = 2
  /\ Cardinality(OwnedBy(last.caller)) >= 2
  /\ last.outcome = "return"
  /\ last.ret.page = 1
  /\ last.ret.count = 0

(* ------------------------- status counts: SpecStats --------------------- *)

\* Number of jobs created in one behaviour of SpecStats.
MaxStatsJobs == 3

sPENDING == <<"P", "E", "N", "D", "I", "N", "G">>
sUnknown == <<"u", "n", "k", "n", "o", "w", "n">>

\* Statuses that reach the table without validation.
StoredStatuses == {sPendingCap, sPENDING, sUnknown}

NextStats ==
  \/ Respond
  \/ \E c \in Users, v \in ValidValues :
       nextId <= MaxStatsJobs /\ CreateJob(c, v, TRUE)
  \/ \E c \in Users, id \in 1..MaxStatsJobs, s \in StoredStatuses :
       UpdateJob(c, id, [vBase EXCEPT !.status = s], TRUE)
  \/ \E c \in Callers, ok \in BOOLEAN : GetStats(c, ok)

SpecStats == Init /\ [][NextStats]_vars

\* The caller's rows whose status, lower-cased, is the category c.
InCategory(u, c) == {j \in OwnedBy(u) : toLowerCase(j.status) = c}

\* C14: the status counts have the three keys pending, interview and
\* declined; each is the number of the caller's rows whose status lower-cased
\* is that category, so statuses that differ by letter case share a bucket
\* and a row with any other status is in none.
C14_StatusCounts ==
  (last.op = "getStats" /\ last.outcome = "return")
    => /\ DOMAIN last.ret = {"pending", "interview", "declined"}
       /\ last.ret.pending = Cardinality(InCategory(last.caller, sPending))
       /\ last.ret.interview = Cardinality(InCategory(last.caller, sInterview))
       /\ last.ret.declined = Cardinality(InCategory(last.caller, sDeclined))

C14_Witness ==
  /\ last.op = "getStats"
  /\ last.outcome = "return"
  /\ last.ret.pending = 2
  /\ last.ret.interview = 0
  /\ \E j, k, l \in OwnedBy(last.caller) :
       j.status = sPending /\ k.status = sPendingCap /\ l.status = sUnknown

(* ------------------------- monthly trend: SpecCharts -------------------- *)

\* Number of jobs created in one behaviour of SpecCharts.
MaxChartJobs == 3

\* The day the requests of a behaviour are served on: 28 August, 31 August
\* and 1 September of the first year.
ChartNows == {Date(7, 28), Date(7, 31), Date(8, 1)}

\* The createdAt a submission may carry: 27 February, 28 February, 1 March,
\* 30 August and 2 September of the first year.
ChartDates == {Date(1, 27), Date(1, 28), Date(2, 1), Date(7, 30), Date(8, 2)}

ChartValues == {vBase} \cup {[vBase EXCEPT !.createdAt = <<d>>] : d \in ChartDates}

InitCharts ==
  /\ jobs = {}
  /\ nextId = 1
  /\ now \in ChartNows
  /\ last = Idle
  /\ listing = NoListing
  /\ fixRun = FixIdle

NextCharts ==
  \/ Respond
  \/ \E c \in Users, v \in ChartValues :
       nextId <= MaxChartJobs /\ CreateJob(c, v, TRUE)
  \/ \E c \in Callers, ok \in BOOLEAN : GetChartsData(c, ok)
  \/ \E c \in Users, ok \in BOOLEAN : GetStats(c, ok)

SpecCharts == InitCharts /\ [][NextCharts]_vars

\* The latest day of the sixth month before t's month whose day of the
\* month is not after t's.
SixMonthsBefore(t) ==
  LET m == MonthOf(t) - 6
      days == {d \in MonthStart(m)..(MonthStart(m + 1) - 1) :
                 d - MonthStart(m) + 1 <= DayOfMonth(t)}
  IN  CHOOSE d \in days : \A e \in days : e <= d

\* The rows of user u created from six months before day t up to day t.
InWindow(u, t) ==
  {j \in OwnedBy(u) : SixMonthsBefore(t) <= j.createdAt /\ j.createdAt <= t}

RECURSIVE SumOfCounts(_)
SumOfCounts(entries) ==
  IF entries = <<>> THEN 0 ELSE Head(entries).count + SumOfCounts(Tail(entries))

\* C15: the monthly trend counts a row of the caller exactly when its
\* createdAt is from six months before now up to now: the counts add up to
\* the number of these rows and the labels are the labels of these rows.
C15_TrendWindow ==
  (last.op = "getCharts" /\ last.outcome = "return")
    => /\ SumOfCounts(last.ret.items) = Cardinality(InWindow(last.caller, now))
       /\ {last.ret.items[i].date : i \in DOMAIN last.ret.items}
            = {FormatMMMYY(j.createdAt) : j \in InWindow(last.caller, now)}

C15_Witness ==
  /\ last.op = "getCharts"
  /\ last.outcome = "return"
  /\ SumOfCounts(last.ret.items) = 1
  /\ now = Date(7, 31)
  /\ \E j, k, l \in OwnedBy(last.caller) :
       /\ j.createdAt = Date(1, 28)
       /\ k.createdAt = Date(1, 27)
       /\ l.createdAt = Date(8, 2)

\* The months that hold a row of S.
MonthsOf(S) == {MonthOf(j.createdAt) : j \in S}

\* C16: the monthly trend has one entry for each month that holds a row of
\* the window, with the number of the window's rows of that month as its
\* count, no entry with count 0, and the entries in ascending order of
\* their months.
C16_TrendEntries ==
  (last.op = "getCharts" /\ last.outcome = "return")
    => LET W == ChartRows(jobs, last.caller, now)
           monthOfEntry(i) ==
             CHOOSE m \in MonthsOf(W) : FormatMMMYY(MonthStart(m)) = last.ret.items[i].date
       IN  /\ Len(last.ret.items) = Cardinality(MonthsOf(W))
           /\ \A i \in DOMAIN last.ret.items :
                /\ \E m \in MonthsOf(W) : FormatMMMYY(MonthStart(m)) = last.ret.items[i].date
                /\ last.ret.items[i].count >= 1
                /\ last.ret.items[i].count
                     = Cardinality({j \in W : MonthOf(j.createdAt) = monthOfEntry(i)})
           /\ \A i, k \in DOMAIN last.ret.items : i < k => monthOfEntry(i) < monthOfEntry(k)
           /\ SumOfCounts(last.ret.items) = Cardinality(W)

C16_Witness ==
  /\ last.op = "getCharts"
  /\ last.outcome = "return"
  /\ Len(last.ret.items) = 2
  /\ last.ret.items[1] = [date |-> [mon |-> "Feb", yy |-> 1], count |-> 1]
  /\ last.ret.items[2] = [date |-> [mon |-> "Mar", yy |-> 1], count |-> 2]

\* C17: when the storage call of the status counts or of the monthly trend
\* throws, the action ends in the redirect to /jobs and returns nothing.
C17_AggregationFailureRedirects ==
  (last.op \in {"getStats", "getCharts"} /\ last.caller \in Users /\ ~last.args.dbOk)
    => (last.outcome = "redirect" /\ last.to = "/jobs" /\ last.ret = Null)

C17_Witness ==
  /\ last.op = "getStats"
  /\ last.caller \in Users
  /\ ~last.args.dbOk
  /\ OwnedBy(last.caller) # {}
  /\ last.outcome = "redirect"
  /\ last.to = "/jobs"

(* ---------------------------- delete: SpecDelete ------------------------ *)

\* Number of jobs created in one behaviour of SpecDelete.
MaxDeleteJobs == 3

NextDelete ==
  \/ Respond
  \/ \E c \in Users : nextId <= MaxDeleteJobs /\ CreateJob(c, vBase, TRUE)
  \/ \E c \in Users, id \in 1..MaxDeleteJobs :
       UpdateJob(c, id, [vBase EXCEPT !.status = sInterview], TRUE)
  \/ \E c \in Users, id \in 1..MaxDeleteJobs, ok \in BOOLEAN : DeleteJob(c, id, ok)
  \/ \E c \in Users, id \in 1..MaxDeleteJobs : GetSingleJob(c, id, TRUE)
  \/ \E c \in Users : GetAllJobs(c, <<>>, <<>>, 1, DefaultLimit, 0)
  \/ \E c \in Users : GetAllJobsForDownload(c, TRUE)

SpecDelete == Init /\ [][NextDelete]_vars

\* The ids given to rows that are in the table no more.
DeletedIds == {id \in 1..(nextId - 1) : \A j \in jobs : j.id # id}

\* C19: a delete that succeeds returns the caller's row with the id as it
\* was and takes exactly that row out of the table.  From then on the id
\* is in the table no more: a lookup of it is redirected to /jobs, update
\* and delete of it return null, and no listing or export returns a row
\* with it.
C19_DeleteRemovesRecord ==
  [][CallStep =>
       /\ (last'.op = "delete" /\ last'.ret # Null)
            => /\ last'.ret \in WhereIdAndClerk(jobs, last'.args.id, last'.caller)
               /\ jobs' = jobs \ {last'.ret}
       /\ \A id \in DeletedIds :
            /\ \A j \in jobs' : j.id # id
            /\ (last'.op \in {"update", "delete"} /\ last'.args.id = id)
                 => (last'.ret = Null /\ jobs' = jobs)
            /\ (last'.op = "getSingle" /\ last'.args.id = id)
                 => (last'.outcome = "redirect" /\ last'.to = "/jobs")
            /\ (last'.op = "getAll" /\ last'.outcome = "return")
                 => \A i \in DOMAIN last'.ret.jobs : last'.ret.jobs[i].id # id
            /\ (last'.op = "download" /\ last'.outcome = "return")
                 => \A i \in DOMAIN last'.ret.items : last'.ret.items[i].id # id]_vars

C19_Witness ==
  /\ last.op = "delete"
  /\ last.caller \in Users
  /\ last.ret # Null
  /\ last.ret.status = sInterview
  /\ last.args.id \in DeletedIds
  /\ OwnedBy(last.caller) # {}
  /\ jobs # OwnedBy(last.caller)

(* ---------------------------- export: SpecExport ------------------------ *)

\* Number of jobs created in one behaviour of SpecExport.
MaxExportJobs == 3

NextExport ==
  \/ Tick
  \/ Respond
  \/ \E c \in Users : nextId <= MaxExportJobs /\ CreateJob(c, vBase, TRUE)
  \/ \E c \in Users, id \in 1..MaxExportJobs : DeleteJob(c, id, TRUE)
  \/ \E c \in Callers, ok \in BOOLEAN : GetAllJobsForDownload(c, ok)

SpecExport == Init /\ [][NextExport]_vars

\* C20: on a working store the export returns each row of the caller once
\* and no other row, however many there are, the later created first.
C20_ExportAllOwnRows ==
  (last.op = "download" /\ last.caller \in Users /\ last.args.dbOk)
    => /\ last.outcome = "return"
       /\ Len(last.ret.items) = Cardinality(OwnedBy(last.caller))
       /\ {last.ret.items[i] : i \in DOMAIN last.ret.items} = OwnedBy(last.caller)
       /\ \A i, k \in DOMAIN last.ret.items :
            i < k => last.ret.items[i].createdAt >= last.ret.items[k].createdAt

C20_Witness ==
  /\ last.op = "download"
  /\ last.args.dbOk
  /\ last.outcome = "return"
  /\ Len(last.ret.items) = 2
  /\ last.ret.items[1].createdAt > last.ret.items[2].createdAt
  /\ jobs # OwnedBy(last.caller)

(* ------------------------ timestamps: SpecForm -------------------------- *)

\* C21: after every create, update and delete, whatever the submitted
\* values carry, each row of the table has createdAt <= updatedAt, and a row
\* a create has just stored has createdAt = updatedAt = the instant of the
\* call.
C21_CreatedBeforeUpdated ==
  [][CallStep =>
       /\ \A j \in jobs' : j.createdAt <= j.updatedAt
       /\ (last'.op = "create" /\ last'.ret # Null)
            => (last'.ret.createdAt = now /\ last'.ret.updatedAt = now)]_vars

(* ----------------------- ties in the order: SpecTies -------------------- *)

\* Number of jobs created in one behaviour of SpecTies.
MaxTieJobs == 2

NextTies ==
  \/ Tick
  \/ Respond
  \/ \E c \in Users : nextId <= MaxTieJobs /\ CreateJob(c, vBase, TRUE)
  \/ \E c \in Users, id \in 1..MaxTieJobs : DeleteJob(c, id, TRUE)
  \/ \E c \in Users, limit \in 1..MaxLimit : GetAllPages(c, limit)

SpecTies == Init /\ [][NextTies]_vars

\* The pages of a listing, one after the other.
RECURSIVE Concatenated(_)
Concatenated(pages) ==
  IF pages = <<>> THEN <<>> ELSE Head(pages) \o Concatenated(Tail(pages))

\* C22: on a table that stays as it is, each page of a listing is in
\* descending order of createdAt, and the pages 1..totalPages one after
\* the other hold each matching row once: none twice and none left out,
\* also when rows have the same createdAt.
C22_PagesPartitionTheRows ==
  (last.op = "getAllPages")
    => LET M == Matching(jobs, last.caller, <<>>, <<>>)
           all == Concatenated(last.ret.pages)
       IN  /\ \A p \in DOMAIN last.ret.pages :
                \A i, k \in DOMAIN last.ret.pages[p] :
                  i < k => last.ret.pages[p][i].createdAt >= last.ret.pages[p][k].createdAt
           /\ Len(all) = Cardinality(M)
           /\ {all[i] : i \in DOMAIN all} = M

(* ------------------ status filter and blank search: SpecFilter ---------- *)

\* Number of jobs created in one behaviour of SpecFilter.
MaxFilterJobs == 2

sSpaces == <<" ", " ">>

\* The search terms of SpecFilter: none, and one of spaces only.
BlankSearchTerms == {<<>>, sSpaces}

\* The status filters of SpecFilter: none, "all", "pending" and "Pending".
CaseStatusFilters == {<<>>, sAll, sPending, sPendingCap}

NextFilter ==
  \/ Respond
  \/ \E c \in Users, v \in ValidValues :
       nextId <= MaxFilterJobs /\ CreateJob(c, v, TRUE)
  \/ \E c \in Users, id \in 1..MaxFilterJobs :
       UpdateJob(c, id, [vBase EXCEPT !.status = sPendingCap], TRUE)
  \/ \E c \in Users, search \in BlankSearchTerms, jobStatus \in CaseStatusFilters :
       GetAllJobs(c, search, jobStatus, 1, DefaultLimit, 0)
  \/ \E c \in Users : GetStats(c, TRUE)

SpecFilter == Init /\ [][NextFilter]_vars

\* C23: with no status filter, an empty one or "all", a listing applies no
\* status condition; with any other filter it returns exactly the caller's
\* rows whose stored status is the filter, character by character.  The
\* status counts go by the lower-cased status, so a row stored as "Pending"
\* is in the pending count and in no listing filtered by "pending".
C23_StatusFilterExact ==
  /\ (last.op = "getAll" /\ last.outcome = "return" /\ last.args.search = <<>>)
       => LET expected ==
                {j \in OwnedBy(last.caller) :
                   \/ last.args.jobStatus \in {<<>>, sAll}
                   \/ j.status = last.args.jobStatus}
          IN  /\ last.ret.count = Cardinality(expected)
              /\ {last.ret.jobs[i] : i \in DOMAIN last.ret.jobs} = expected
  /\ (last.op = "getStats" /\ last.outcome = "return")
       => last.ret.pending = Cardinality(InCategory(last.caller, sPending))

C23_Witness ==
  /\ last.op = "getAll"
  /\ last.args.search = <<>>
  /\ last.args.jobStatus = sPending
  /\ last.ret.count = 1
  /\ Cardinality(InCategory(last.caller, sPending)) = 2
  /\ \E j \in OwnedBy(last.caller) : j.status = sPendingCap

\* C24: a search term that is empty after trimming is no search term: the
\* listing returns the rows and the count of the listing without one.
C24_BlankSearchIsAbsent ==
  (last.op = "getAll" /\ last.outcome = "return" /\ last.args.search # <<>>
     /\ trim(last.args.search) = <<>>)
    => LET M == Matching(jobs, last.caller, <<>>, last.args.jobStatus)
       IN  /\ last.ret.count = Cardinality(M)
           /\ {last.ret.jobs[i] : i \in DOMAIN last.ret.jobs} = M

(* ----------------------- future dates: SpecFixDates --------------------- *)

\* Number of jobs created in one behaviour of SpecFixDates.
MaxFixDateJobs == 2

\* The day the script runs on: 15 August of the first year.
FixNow == Date(7, 15)

\* The createdAt a seeded job carries: 20 August, in the month of the run,
\* and 2 September, in a later month.
SeededDates == {Date(7, 20), Date(8, 2)}

SeededValues == {vBase} \cup {[vBase EXCEPT !.createdAt = <<d>>] : d \in SeededDates}

InitFixDates ==
  /\ jobs = {}
  /\ nextId = 1
  /\ now = FixNow
  /\ last = Idle
  /\ listing = NoListing
  /\ fixRun = FixIdle

NextFixDates ==
  \/ Respond
  \/ \E v \in SeededValues : nextId <= MaxFixDateJobs /\ CreateJob("u1", v, TRUE)
  \/ FixFutureDates

SpecFixDates == InitFixDates /\ [][NextFixDates]_vars

\* C25: a run of db-fix-future-dates at instant now gives each job it
\* rewrites createdAt = updatedAt, a date not after now, whatever the random
\* numbers are; after the run no job has a createdAt after now.
C25_NoFutureDateRemains ==
  [][(last = Idle /\ last'.op = "fixFutureDates")
       => /\ \A j \in jobs' \ jobs : j.createdAt = j.updatedAt /\ j.createdAt <= now
          /\ FutureJobs(jobs', now) = {}]_vars

(* ----------------------- status repair: SpecFixStatus ------------------- *)

\* Number of jobs created in one behaviour of SpecFixStatus.
MaxFixStatusJobs == 2

sDeclinedNL == <<"d", "e", "c", "l", "i", "n", "e", "d", "\n">>

\* Statuses that reach the table without validation: "declined\n",
\* "Pending", the empty string, two spaces and "unknown".
MalformedStatuses == {sDeclinedNL, sPendingCap, <<>>, sSpaces, sUnknown}

\* The table is filled before the script starts; nothing else writes from
\* then on.
NextFixStatus ==
  \/ Respond
  \/ \E c \in Users :
       fixRun.pc = "idle" /\ nextId <= MaxFixStatusJobs /\ CreateJob(c, vBase, TRUE)
  \/ \E c \in Users, id \in 1..MaxFixStatusJobs, s \in MalformedStatuses :
       fixRun.pc = "idle" /\ UpdateJob(c, id, [vBase EXCEPT !.status = s], TRUE)
  \/ last = Idle /\ FixStatusRead
  \/ FixStatusWrite

SpecFixStatus == Init /\ [][NextFixStatus]_vars

\* The status s is rewritten: lower-cased and trimmed it is a category other
\* than s itself, or trimmed it is empty.
ShouldRewrite(s) ==
  \/ trim(toLowerCase(s)) \in JobStatus /\ trim(toLowerCase(s)) # s
  \/ trim(s) = <<>>

\* What a rewritten status becomes.
Rewritten(s) == IF trim(s) = <<>> THEN sPending ELSE trim(toLowerCase(s))

\* C26: with no other write, db-fix-status plans a rewrite for exactly the
\* jobs whose status should be rewritten, each write gives one of them its
\* category (the empty status becomes "pending") and leaves every other
\* row as it is, and when the script has ended no status is left to
\* rewrite, so a second run changes nothing.
C26_FixStatusRewrites ==
  [][(fixRun' # fixRun) =>
       /\ (fixRun.pc # "fixing")
            => /\ jobs' = jobs
               /\ Len(fixRun'.toFix) =
                    Cardinality({j \in jobs : ShouldRewrite(j.status)})
               /\ {[id |-> fixRun'.toFix[i].id, to |-> fixRun'.toFix[i].to] :
                     i \in DOMAIN fixRun'.toFix}
                    = {[id |-> j.id, to |-> Rewritten(j.status)] :
                         j \in {k \in jobs : ShouldRewrite(k.status)}}
       /\ (fixRun.pc = "fixing")
            => LET id == Head(fixRun.toFix).id
               IN  /\ {j \in jobs' : j.id # id} = {j \in jobs : j.id # id}
                   /\ \A j \in jobs : j.id = id =>
                        [j EXCEPT !.status = Rewritten(j.status), !.updatedAt = now]
                          \in jobs'
                   /\ Cardinality(jobs') = Cardinality(jobs)
       /\ (fixRun'.pc = "done")
            => \A j \in jobs' :
                 /\ ~ShouldRewrite(j.status)
                 /\ normalizeStatus(j.status) \in {<<>>, <<j.status>>}]_vars

C26_Witness ==
  /\ fixRun.pc = "done"
  /\ \E j, k \in jobs :
       /\ j.status = sDeclined
       /\ k.status = sUnknown

\* getStatsAction's result on the table store for user u.
StatsOf(store, u) == DefaultStats(StatsObject(GroupByStatus(store, u)))

\* C30: the status counts put a status in category c exactly when
\* normalizeStatus gives c for it, so no write of db-fix-status changes the
\* status counts of any user.
C30_AggregatorAgreesWithRepair ==
  [][(fixRun.pc = "fixing" /\ fixRun' # fixRun)
       => /\ \A u \in Users : StatsOf(jobs', u) = StatsOf(jobs, u)
          /\ \A j \in jobs, c \in JobStatus :
               (Normalized(j.status) = c) <=> (normalizeStatus(j.status) = <<c>>)]_vars

(* ------------------ repair beside user writes: SpecFixRace -------------- *)

\* Number of jobs created in one behaviour of SpecFixRace.
MaxRaceJobs == 2

\* Users go on updating their jobs while the script runs.
NextFixRace ==
  \/ Respond
  \/ \E c \in Users : nextId <= MaxRaceJobs /\ CreateJob(c, vBase, TRUE)
  \/ \E c \in Users, id \in 1..MaxRaceJobs, s \in {sPendingCap, sInterview} :
       UpdateJob(c, id, [vBase EXCEPT !.status = s], TRUE)
  \/ last = Idle /\ FixStatusRead
  \/ FixStatusWrite

SpecFixRace == Init /\ [][NextFixRace]_vars

\* C29: a write of db-fix-status to a job whose status is no more the one
\* the script read leaves the job's status as the user wrote it.
C29_RepairKeepsUserStatus ==
  [][(fixRun.pc = "fixing" /\ fixRun' # fixRun)
       => \A j \in jobs :
            (/\ j.id = Head(fixRun.toFix).id
             /\ JSONStringify(j.status) # Head(fixRun.toFix).from)
              => \E k \in jobs' : k.id = j.id /\ k.status = j.status]_vars

(* -------------------- non-interference: SpecIsolation ------------------ *)

\* Number of jobs created in one behaviour of SpecIsolation.
MaxIsolationJobs == 2

\* The requests are served on 28 August of the first year.
InitIsolation ==
  /\ jobs = {}
  /\ nextId = 1
  /\ now = Date(7, 28)
  /\ last = Idle
  /\ listing = NoListing
  /\ fixRun = FixIdle

\* The writes of the users, with any keys in the submitted values.
NextIsolation ==
  \/ Respond
  \/ \E c \in Users, v \in OwnValues :
       nextId <= MaxIsolationJobs /\ CreateJob(c, v, TRUE)
  \/ \E c \in Users, id \in 1..MaxIsolationJobs, v \in OwnValues :
       UpdateJob(c, id, v, TRUE)
  \/ \E c \in Users, id \in 1..MaxIsolationJobs : DeleteJob(c, id, TRUE)

SpecIsolation == InitIsolation /\ [][NextIsolation]_vars

\* What the four reads of user u can return on the table store at instant
\* t, each with every order the database may deliver the rows in.
ListResults(store, u) == OrdersByCreatedAtDesc(Matching(store, u, <<>>, <<>>))

ExportResults(store, u) == AnyOrder(DownloadRows(store, u))

ChartResults(store, u, t) ==
  {ApplicationsPerMonth(<<>>, ord) : ord \in OrdersByCreatedAtAsc(ChartRows(store, u, t))}

ReadsOf(store, u, t) ==
  [list |-> ListResults(store, u), export |-> ExportResults(store, u),
   stats |-> StatsOf(store, u), charts |-> ChartResults(store, u, t)]

\* C27: a create, update or delete called by user B leaves what the list,
\* the export, the status counts and the monthly trend return to every
\* other user A as it was before the call.
C27_NonInterference ==
  [][(CallStep /\ last'.op \in {"create", "update", "delete"})
       => \A a \in Users \ {last'.caller} :
            ReadsOf(jobs', a, now) = ReadsOf(jobs, a, now)]_vars

(* ------------------ listing beside writes: SpecConcurrent --------------- *)

\* Number of jobs created in one behaviour of SpecConcurrent.
MaxConcurrentJobs == 2

\* Requests of other callers are served between the two queries of a
\* listing.
NextConcurrent ==
  \/ Respond
  \/ \E c \in Users : nextId <= MaxConcurrentJobs /\ CreateJob(c, vBase, TRUE)
  \/ \E c \in Users, id \in 1..MaxConcurrentJobs : DeleteJob(c, id, TRUE)
  \/ \E c \in Users, page \in 1..2, limit \in 1..MaxLimit :
       ListFindMany(c, <<>>, <<>>, page, limit)
  \/ ListCount

SpecConcurrent == Init /\ [][NextConcurrent]_vars

\* C28: a listing never returns more rows than its count, and never a row
\* together with totalPages = 0, whatever is created or deleted between its
\* two queries.
C28_ListingConsistent ==
  (last.op = "getAll" /\ last.outcome = "return")
    => /\ Len(last.ret.jobs) <= last.ret.count
       /\ Len(last.ret.jobs) > 0 => last.ret.totalPages # 0

====
